---- MODULE Spec2Model ----
(***************************************************************************)
(* Question-structure extraction engine of sheet-api:                      *)
(* extractQuestionsFromText (final variant, src/utils-horizon.js           *)
(* 1285-1469).  A JavaScript string is a sequence of one-character         *)
(* strings; offsets are 0-based as in the source, so the character at      *)
(* offset i of s is s[i+1].  Every regular expression of the function is   *)
(* an operator that computes the match the backtracking matcher of the     *)
(* JavaScript engine finds (greedy quantifiers, leftmost start, flags).    *)
(* A value that is needed several times is handed on as an operator        *)
(* parameter, so that it is computed once.                                 *)
(***************************************************************************)
EXTENDS Integers, Sequences, FiniteSets, TLC

\* ------------------------------------------------------------------------
\* Characters and character classes
\* ------------------------------------------------------------------------

NL == "\n"

\* \s of the regular expressions (the ASCII members of the class)
WS == {" ", "\t", "\n", "\r"}

\* line terminators, where ^ and $ match under the m flag
LineTerminators == {"\n", "\r"}

LowerSeq == <<"a","b","c","d","e","f","g","h","i","j","k","l","m",
              "n","o","p","q","r","s","t","u","v","w","x","y","z">>

UpperSeq == <<"A","B","C","D","E","F","G","H","I","J","K","L","M",
              "N","O","P","Q","R","S","T","U","V","W","X","Y","Z">>

DigitSeq == <<"0","1","2","3","4","5","6","7","8","9">>

LowerLetters == {LowerSeq[i] : i \in 1..26}

UpperLetters == {UpperSeq[i] : i \in 1..26}

Digits == {DigitSeq[i] : i \in 1..10}

\* [a-z] under the i flag
Letters == LowerLetters \cup UpperLetters

\* [ivxlcdm] under the i flag
RomanChars == {"i","v","x","l","c","d","m","I","V","X","L","C","D","M"}

\* String.prototype.toLowerCase on one character
ToLowerChar(c) ==
  IF c \in UpperLetters
    THEN LowerSeq[CHOOSE i \in 1..26 : UpperSeq[i] = c]
    ELSE c

\* String.prototype.toLowerCase
ToLower(s) == [i \in 1..Len(s) |-> ToLowerChar(s[i])]

DigitVal(c) == (CHOOSE i \in 1..10 : DigitSeq[i] = c) - 1

\* parseInt on a string of decimal digits
RECURSIVE ParseInt(_)
ParseInt(s) ==
  IF Len(s) = 0 THEN 0
  ELSE 10 * ParseInt(SubSeq(s, 1, Len(s) - 1)) + DigitVal(s[Len(s)])

\* ------------------------------------------------------------------------
\* String primitives
\* ------------------------------------------------------------------------

\* the character at 0-based offset i, "" past the end
At(s, i) == IF i >= 0 /\ i < Len(s) THEN s[i + 1] ELSE ""

Min(a, b) == IF a < b THEN a ELSE b

Max(a, b) == IF a > b THEN a ELSE b

Clamp(x, n) == Max(0, Min(x, n))

\* the characters of s from offset a up to offset b, for a and b in range
Slice(s, a, b) == SubSeq(s, Min(a, b) + 1, Max(a, b))

\* String.prototype.substring(start, end): both arguments are clamped to
\* [0, length] and swapped when start > end
Substring(s, start, end) ==
  Slice(s, Clamp(start, Len(s)), Clamp(end, Len(s)))

\* the literal lit occurs in s at offset p
LitAt(s, p, lit) ==
  /\ p >= 0
  /\ p + Len(lit) <= Len(s)
  /\ \A k \in 1..Len(lit) : s[p + k] = lit[k]

\* the literal lit occurs in s at offset p, compared under the i flag
LitAtI(s, p, lit) ==
  /\ p >= 0
  /\ p + Len(lit) <= Len(s)
  /\ \A k \in 1..Len(lit) : ToLowerChar(s[p + k]) = ToLowerChar(lit[k])

\* end of the longest run of characters of class cls that starts at p
RECURSIVE SkipClass(_, _, _)
SkipClass(s, p, cls) ==
  IF p < Len(s) /\ s[p + 1] \in cls THEN SkipClass(s, p + 1, cls) ELSE p

\* greedy \s* from p
SkipWs(s, p) == SkipClass(s, p, WS)

\* end of the longest run of characters other than newline from p: [^\n]*
RECURSIVE SkipNonNl(_, _)
SkipNonNl(s, p) ==
  IF p < Len(s) /\ s[p + 1] # NL THEN SkipNonNl(s, p + 1) ELSE p

\* String.prototype.trim
RECURSIVE TrimEnd(_)
TrimEnd(s) ==
  IF Len(s) > 0 /\ s[Len(s)] \in WS THEN TrimEnd(SubSeq(s, 1, Len(s) - 1))
  ELSE s

Trim(s) == TrimEnd(SubSeq(s, SkipWs(s, 0) + 1, Len(s)))

\* the largest member of a non-empty finite set of integers
MaxOf(S) == CHOOSE x \in S : \A y \in S : y <= x

\* the smallest member of a non-empty finite set of integers
MinOf(S) == CHOOSE x \in S : \A y \in S : x <= y

\* the largest member of a finite set of offsets, -1 when it is empty
MaxOrNone(S) == IF S = {} THEN -1 ELSE MaxOf(S)

\* a failed match (exec returns null)
NoMatch == [ok |-> FALSE]

\* ------------------------------------------------------------------------
\* Scanning with a g-flagged pattern.  M maps every offset of the subject
\* to the match the pattern has when started there (NoMatch if none).
\* ------------------------------------------------------------------------

\* the leftmost match at or after offset from: one exec / match call
FirstMatch(M, from) ==
  LET P == {p \in DOMAIN M : p >= from /\ M[p].ok}
  IN IF P = {} THEN NoMatch ELSE M[MinOf(P)]

\* the successive matches from the left, each search resuming at the end of
\* the match before (lastIndex); every pattern of this module consumes at
\* least one character
RECURSIVE MatchesFrom(_, _)
MatchesFrom(M, from) ==
  IF FirstMatch(M, from).ok
    THEN <<FirstMatch(M, from)>> \o MatchesFrom(M, FirstMatch(M, from).end)
    ELSE <<>>

\* String.prototype.replace(pattern, ''), ms the matches of the pattern in s
RECURSIVE DeleteMatches(_, _, _, _)
DeleteMatches(s, ms, i, from) ==
  IF i > Len(ms) THEN Substring(s, from, Len(s))
  ELSE Substring(s, from, ms[i].index)
         \o DeleteMatches(s, ms, i + 1, ms[i].end)

\* ------------------------------------------------------------------------
\* Task headers: /Task\s+(\d+):\s*([^\n]+)/gi
\* ------------------------------------------------------------------------

TaskLit == <<"T", "a", "s", "k">>

\* the match record: number from b to c, title from k to the end of the line
TaskRecord(s, p, b, c, k, end) ==
  [ok |-> TRUE, index |-> p, end |-> end,
   number |-> Substring(s, b, c), title |-> Substring(s, k, end)]

\* \s*([^\n]+) after the colon: \s* is greedy and also takes newlines; it
\* gives characters back until [^\n]+ finds a character other than newline.
\* k is the largest offset the title can start at, -1 if there is none
TaskTitleAt(s, p, b, c, k) ==
  IF k = -1 THEN NoMatch ELSE TaskRecord(s, p, b, c, k, SkipNonNl(s, k))

\* (\d+): from b, the end of the whitespace after the word
TaskNumberAt(s, p, b, c) ==
  IF c = b \/ At(s, c) # ":" THEN NoMatch
  ELSE TaskTitleAt(s, p, b, c,
         MaxOrNone({k \in (c + 1)..SkipWs(s, c + 1) :
                      k < Len(s) /\ At(s, k) # NL}))

\* \s+ after the word
TaskWordAt(s, p, b) ==
  IF b = p + 4 THEN NoMatch
  ELSE TaskNumberAt(s, p, b, SkipClass(s, b, Digits))

\* the match of the header pattern that starts at offset p, if any
TaskMatchAt(s, p) ==
  IF ~LitAtI(s, p, TaskLit) THEN NoMatch
  ELSE TaskWordAt(s, p, SkipWs(s, p + 4))

TaskTable(s) == [p \in 0..Len(s) - 1 |-> TaskMatchAt(s, p)]

\* a header scan that treats a document without headers as one task 1
taskMatchesOrWhole(text) ==
  IF ~FirstMatch(TaskTable(text), 0).ok /\ Len(text) > 0
    THEN <<[ok |-> TRUE, index |-> 0, end |-> 0, number |-> <<"1">>,
            title |-> <<>>]>>
    ELSE MatchesFrom(TaskTable(text), 0)

\* [...text.matchAll(re)]
taskMatches(text) == MatchesFrom(TaskTable(text), 0)

\* ------------------------------------------------------------------------
\* Marker patterns of one task section
\* ------------------------------------------------------------------------

\* (?![a-z]) under the i flag at offset p
LookNotLetter(s, p) == At(s, p) \notin Letters

\* the closing parenthesis of \(\s*([a-z])\s*\), the letter being at x
ParenLetterClose(s, x, y) ==
  IF At(s, y) = ")"
    THEN [ok |-> TRUE, end |-> y + 1, letter |-> <<At(s, x)>>]
    ELSE NoMatch

\* \s*([a-z])\s*\) with the letter expected at x
ParenLetterBody(s, x) ==
  IF At(s, x) \in Letters THEN ParenLetterClose(s, x, SkipWs(s, x + 1))
  ELSE NoMatch

\* \(\s*([a-z])\s*\) at offset p
ParenLetterAt(s, p) ==
  IF At(s, p) = "(" THEN ParenLetterBody(s, SkipWs(s, p + 1)) ELSE NoMatch

\* \s*(?![a-z]) from offset g: the longest whitespace run, given back one
\* character at a time until the lookahead holds; -1 when it never does
TailEnd(s, g) == MaxOrNone({b \in g..SkipWs(s, g) : LookNotLetter(s, b)})

\* the rest of mainPattern with the optional group skipped, t its end
MainRestSkipped(t) ==
  IF t # -1 THEN [ok |-> TRUE, end |-> t, letter |-> <<>>] ELSE NoMatch

\* the rest of mainPattern after the group g matched, t the end of the tail
\* behind the group; when the tail fails the group is given up
MainRestGroup(s, a, g, t) ==
  IF t # -1 THEN [ok |-> TRUE, end |-> t, letter |-> g.letter]
  ELSE MainRestSkipped(TailEnd(s, a))

\* the group is tried first (the quantifier ? is greedy)
MainRestTry(s, a, g) ==
  IF g.ok THEN MainRestGroup(s, a, g, TailEnd(s, g.end))
  ELSE MainRestSkipped(TailEnd(s, a))

\* (?:\(\s*([a-z])\s*\))?\s*(?![a-z]) from offset a
MainRestAt(s, a) == MainRestTry(s, a, ParenLetterAt(s, a))

\* the match record of mainPattern
MainRecord(p, m) ==
  [ok |-> TRUE, index |-> p, end |-> m.end, g1 |-> m.letter, g2 |-> <<>>]

\* \s* after the task number is greedy: the rest is tried from the largest
\* offset a of A downwards
MainPick(s, p, A) ==
  IF A = {} THEN NoMatch ELSE MainRecord(p, MainRestAt(s, MaxOf(A)))

\* the task number N expected at q
MainNumberAt(s, N, p, q) ==
  IF ~LitAt(s, q, N) THEN NoMatch
  ELSE MainPick(s, p, {a \in (q + Len(N))..SkipWs(s, q + Len(N)) :
                         MainRestAt(s, a).ok})

\* mainPattern: \n\s*N\s*(?:\(\s*([a-z])\s*\))?\s*(?![a-z]) at offset p
MainMatchAt(s, N, p) ==
  IF At(s, p) # NL THEN NoMatch ELSE MainNumberAt(s, N, p, SkipWs(s, p + 1))

\* the closing parenthesis of \(\s*([ivxlcdm]+)\s*\), the numeral from x to y
ParenRomanClose(s, x, y, z) ==
  IF y > x /\ At(s, z) = ")"
    THEN [ok |-> TRUE, end |-> z + 1, roman |-> Substring(s, x, y)]
    ELSE NoMatch

ParenRomanRun(s, x, y) == ParenRomanClose(s, x, y, SkipWs(s, y))

ParenRomanBody(s, x) == ParenRomanRun(s, x, SkipClass(s, x, RomanChars))

\* \(\s*([ivxlcdm]+)\s*\) at offset p
ParenRomanAt(s, p) ==
  IF At(s, p) = "(" THEN ParenRomanBody(s, SkipWs(s, p + 1)) ELSE NoMatch

\* the match record of nestedPattern
NestedRecord(p, g, h) ==
  IF h.ok
    THEN [ok |-> TRUE, index |-> p, end |-> h.end,
          g1 |-> g.letter, g2 |-> h.roman]
    ELSE NoMatch

\* \s*\(\s*([ivxlcdm]+)\s*\) behind the letter group g
NestedRomanAt(s, p, g) ==
  IF g.ok THEN NestedRecord(p, g, ParenRomanAt(s, SkipWs(s, g.end)))
  ELSE NoMatch

\* the task number N expected at q
NestedNumberAt(s, N, p, q) ==
  IF ~LitAt(s, q, N) THEN NoMatch
  ELSE NestedRomanAt(s, p, ParenLetterAt(s, SkipWs(s, q + Len(N))))

\* nestedPattern: \n\s*N\s*\(\s*([a-z])\s*\)\s*\(\s*([ivxlcdm]+)\s*\)
NestedMatchAt(s, N, p) ==
  IF At(s, p) # NL THEN NoMatch
  ELSE NestedNumberAt(s, N, p, SkipWs(s, p + 1))

\* the closing parenthesis of \(\s*([a-z]+)\s*\), the letters from x to y
ContinuationClose(s, p, x, y, z) ==
  IF y > x /\ At(s, z) = ")"
    THEN [ok |-> TRUE, index |-> p, end |-> z + 1,
          g1 |-> Substring(s, x, y), g2 |-> <<>>]
    ELSE NoMatch

ContinuationRun(s, p, x, y) == ContinuationClose(s, p, x, y, SkipWs(s, y))

ContinuationBody(s, p, x) ==
  ContinuationRun(s, p, x, SkipClass(s, x, Letters))

\* the opening parenthesis expected at q
ContinuationOpen(s, p, q) ==
  IF At(s, q) = "(" THEN ContinuationBody(s, p, SkipWs(s, q + 1))
  ELSE NoMatch

\* continuationPattern: /\n\s*\(\s*([a-z]+)\s*\)/gi at offset p
ContinuationMatchAt(s, p) ==
  IF At(s, p) # NL THEN NoMatch
  ELSE ContinuationOpen(s, p, SkipWs(s, p + 1))

MainTable(s, N) == [p \in 0..Len(s) - 1 |-> MainMatchAt(s, N, p)]

NestedTable(s, N) == [p \in 0..Len(s) - 1 |-> NestedMatchAt(s, N, p)]

ContinuationTable(s) == [p \in 0..Len(s) - 1 |-> ContinuationMatchAt(s, p)]

\* ------------------------------------------------------------------------
\* Marker accumulation (questionMatches) of one task section
\* ------------------------------------------------------------------------

RomanNumerals ==
  { <<"i">>, <<"i","i">>, <<"i","i","i">>, <<"i","v">>, <<"v">>,
    <<"v","i">>, <<"v","i","i">>, <<"v","i","i","i">>, <<"i","x">>,
    <<"x">>, <<"x","i">>, <<"x","i","i">>, <<"x","i","i","i">>,
    <<"x","i","v">>, <<"x","v">> }

\* `${taskNumber}(${subLetter})`
LetterId(N, letter) == N \o <<"(">> \o letter \o <<")">>

\* `${taskNumber}(${subLetter})(${romanNumeral})`
NestedId(N, letter, roman) ==
  N \o <<"(">> \o letter \o <<")">> \o <<"(">> \o roman \o <<")">>

\* the object pushed to questionMatches; a field the code leaves out is
\* FALSE or <<>>
Marker(m, s, id, pattern, isParent, isNested, parentLetter) ==
  [index |-> m.index, id |-> id,
   fullMatch |-> Substring(s, m.index, m.end),
   pattern |-> pattern, isParentQuestion |-> isParent,
   isNested |-> isNested, parentLetter |-> parentLetter]

\* prevMatch.id.match(new RegExp(`^${taskNumber}\\(([a-z])\\)$`)): no i flag
IsPlainLetterId(id, N) ==
  /\ Len(id) = Len(N) + 3
  /\ LitAt(id, 0, N)
  /\ id[Len(N) + 1] = "("
  /\ id[Len(N) + 2] \in LowerLetters
  /\ id[Len(N) + 3] = ")"

\* the backward walk over questionMatches, in discovery order, that finds
\* the letter a bare roman numeral is attached to; <<>> is null
RECURSIVE ParentLetterFrom(_, _, _)
ParentLetterFrom(list, i, N) ==
  IF i < 1 THEN <<>>
  ELSE IF list[i].isNested /\ list[i].parentLetter # <<>>
    THEN list[i].parentLetter
  ELSE IF list[i].isParentQuestion /\ IsPlainLetterId(list[i].id, N)
    THEN <<list[i].id[Len(N) + 2]>>
  ELSE ParentLetterFrom(list, i - 1, N)

\* a match that proposes no marker
NoCandidate == [ok |-> FALSE]

MainCandidate(m, s, N) ==
  [ok |-> TRUE,
   marker |-> Marker(m, s, IF m.g1 # <<>> THEN LetterId(N, m.g1) ELSE N,
                     "main", TRUE, FALSE, <<>>)]

NestedCandidate(m, s, N) ==
  [ok |-> TRUE,
   marker |-> Marker(m, s, NestedId(N, m.g1, m.g2),
                     "nested", FALSE, TRUE, m.g1)]

\* a bare roman numeral, parentLetter the result of the backward walk
RomanCandidate(m, s, N, parentLetter) ==
  IF parentLetter # <<>>
    THEN [ok |-> TRUE,
          marker |-> Marker(m, s, NestedId(N, parentLetter, m.g1),
                            "continuation-roman", FALSE, TRUE, parentLetter)]
    ELSE NoCandidate

ContinuationCandidate(m, s, N, list) ==
  IF ToLower(m.g1) \in RomanNumerals
    THEN RomanCandidate(m, s, N, ParentLetterFrom(list, Len(list), N))
  ELSE IF Len(m.g1) = 1 /\ m.g1[1] \in LowerLetters
    THEN [ok |-> TRUE,
          marker |-> Marker(m, s, LetterId(N, m.g1),
                            "continuation-letter", TRUE, FALSE, <<>>)]
  ELSE NoCandidate

\* the marker one match of a pattern proposes, given the markers
\* accumulated so far
Candidate(kind, m, s, N, list) ==
  CASE kind = "main" -> MainCandidate(m, s, N)
    [] kind = "nested" -> NestedCandidate(m, s, N)
    [] OTHER -> ContinuationCandidate(m, s, N, list)

\* a dedup that keeps the occurrence with the smallest offset instead
PushLeftmost(list, c) ==
  IF \E i \in 1..Len(list) : list[i].id = c.id
    THEN [i \in 1..Len(list) |->
            IF list[i].id = c.id /\ c.index < list[i].index THEN c
            ELSE list[i]]
    ELSE Append(list, c)

\* a push without the find
PushAlways(list, c) == Append(list, c)

\* if (!questionMatches.find(q => q.id === questionId)) push
PushUnique(list, c) ==
  IF \E i \in 1..Len(list) : list[i].id = c.id THEN list
  ELSE Append(list, c)

\* one pass of a loop body: acc.list is questionMatches, acc.scanned
\* records every proposed marker in scan order, kept or not
Offer(acc, c) ==
  IF c.ok
    THEN [list |-> PushUnique(acc.list, c.marker),
          scanned |-> Append(acc.scanned, c.marker)]
    ELSE acc

\* one exec loop over the matches ms of a pattern
RECURSIVE Accumulate(_, _, _, _, _, _)
Accumulate(kind, ms, i, s, N, acc) ==
  IF i > Len(ms) THEN acc
  ELSE Accumulate(kind, ms, i + 1, s, N,
                  Offer(acc, Candidate(kind, ms[i], s, N, acc.list)))

\* the three exec loops in code order: main, nested, continuation
ScanSection(s, N) ==
  Accumulate("continuation", MatchesFrom(ContinuationTable(s), 0), 1, s, N,
    Accumulate("nested", MatchesFrom(NestedTable(s, N), 0), 1, s, N,
      Accumulate("main", MatchesFrom(MainTable(s, N), 0), 1, s, N,
                 [list |-> <<>>, scanned |-> <<>>])))

\* /\(\s*[a-z]\s*\)/i.test(m.id)
HasParenLetter(id) == \E p \in 0..Len(id) - 1 : ParenLetterAt(id, p).ok

\* hasSubLetters and the splice loop that removes the bare task number
DropStandalone(list, N) ==
  IF \E i \in 1..Len(list) : HasParenLetter(list[i].id)
    THEN SelectSeq(list, LAMBDA m : m.id # N)
    ELSE list

\* the smallest index of a non-empty list of markers
LowestIndex(list) == MinOf({list[i].index : i \in 1..Len(list)})

\* questionMatches.sort((a, b) => a.index - b.index): a stable sort
RECURSIVE SortByIndex(_)
SortByIndex(list) ==
  IF Len(list) = 0 THEN <<>>
  ELSE SelectSeq(list, LAMBDA m : m.index = LowestIndex(list))
         \o SortByIndex(SelectSeq(list, LAMBDA m : m.index # LowestIndex(list)))

\* questionMatches without the sort of line 1416
PrunedUnsorted(list, N) == DropStandalone(list, N)

\* lines 1407-1416: questionMatches as the span loop sees it
PrunedAndSorted(list, N) == SortByIndex(DropStandalone(list, N))


\* ------------------------------------------------------------------------
\* Mark detection and body cleanup
\* ------------------------------------------------------------------------

\* the closing parenthesis of \((\d+)\), the digits from p + 1 to y
ParenDigitsClose(s, p, y) ==
  IF y > p + 1 /\ At(s, y) = ")"
    THEN [ok |-> TRUE, index |-> p, end |-> y + 1,
          digits |-> Substring(s, p + 1, y)]
    ELSE NoMatch

\* \((\d+)\) at offset p
ParenDigitsAt(s, p) ==
  IF At(s, p) # "(" THEN NoMatch
  ELSE ParenDigitsClose(s, p, SkipClass(s, p + 1, Digits))

ParenDigitsTable(s) == [p \in 0..Len(s) - 1 |-> ParenDigitsAt(s, p)]

\* mark detection without the initial value 8
MarksOfNoDefault(marksMatch) ==
  IF marksMatch.ok THEN ParseInt(marksMatch.digits) ELSE 0

\* let marks = 8; if (marksMatch) marks = parseInt(marksMatch[1])
MarksOf(marksMatch) ==
  IF marksMatch.ok THEN ParseInt(marksMatch.digits) ELSE 8

\* marksMatch = questionText.match(/\((\d+)\)/): the leftmost match
DetectMarks(s) == MarksOf(FirstMatch(ParenDigitsTable(s), 0))

\* $ under the m flag at offset k
AtLineEnd(s, k) == k = Len(s) \/ At(s, k) \in LineTerminators

\* ^ under the m flag at offset k
AtLineStart(s, k) == k = 0 \/ At(s, k - 1) \in LineTerminators

\* the match record of /\(\d+\)\s*$/m, k the end of the tail or -1
MarkTailRecord(p, k) ==
  IF k = -1 THEN NoMatch ELSE [ok |-> TRUE, index |-> p, end |-> k]

\* \s*$ behind the annotation g: \s* is greedy and gives characters back
\* until $ holds
MarkTailEnd(s, p, g) ==
  IF ~g.ok THEN NoMatch
  ELSE MarkTailRecord(p, MaxOrNone({k \in g.end..SkipWs(s, g.end) :
                                      AtLineEnd(s, k)}))

\* /\(\d+\)\s*$/m at offset p
MarkTailAt(s, p) == MarkTailEnd(s, p, ParenDigitsAt(s, p))

MarkTailTable(s) == [p \in 0..Len(s) - 1 |-> MarkTailAt(s, p)]

\* .replace(/\(\d+\)\s*$/gm, ''): every match from the left, each search
\* resuming at the end of the previous match, is deleted
StripMarks(s) == DeleteMatches(s, MatchesFrom(MarkTailTable(s), 0), 1, 0)

NoteLit == <<"N", "o", "t", "e", ":">>

\* the text before the first offset of P
NoteCut(s, P) == IF P = {} THEN s ELSE SubSeq(s, 1, MinOf(P))

\* .replace(/Note:.*$/gims, ''): under the s flag .* runs to the end of
\* the string, so everything from the first "note:" on is removed
StripNote(s) == NoteCut(s, {p \in 0..Len(s) - 1 : LitAtI(s, p, NoteLit)})

\* the match record of /^\s*\n+/m, k the last newline \s* can stop
\* before, or -1
BlankRecord(s, p, k) ==
  IF k = -1 THEN NoMatch
  ELSE [ok |-> TRUE, index |-> p, end |-> SkipClass(s, k, {NL})]

\* /^\s*\n+/m at offset p
BlankAt(s, p) ==
  IF ~AtLineStart(s, p) THEN NoMatch
  ELSE BlankRecord(s, p, MaxOrNone({k \in p..SkipWs(s, p) - 1 :
                                      At(s, k) = NL}))

BlankTable(s) == [p \in 0..Len(s) - 1 |-> BlankAt(s, p)]

\* .replace(/^\s*\n+/gm, '')
StripBlank(s) == DeleteMatches(s, MatchesFrom(BlankTable(s), 0), 1, 0)

\* the cleanup chain of lines 1440-1444
Cleanup(s) == Trim(StripBlank(StripNote(StripMarks(s))))

\* ------------------------------------------------------------------------
\* Span extraction and admission for one task section (lines 1294-1461)
\* ------------------------------------------------------------------------

\* a section that begins at its header, not behind it
TaskStartIndexAtHeader(tm, taskIndex) == tm[taskIndex + 1].index

\* taskMatch.index + taskMatch[0].length
TaskStartIndex(tm, taskIndex) == tm[taskIndex + 1].end

\* a section that runs to the end of the text, over the later headers
NextTaskIndexAtEnd(text, tm, taskIndex) == Len(text)

\* nextTaskIndex (lines 1300-1302)
NextTaskIndex(text, tm, taskIndex) ==
  IF taskIndex < Len(tm) - 1 THEN tm[taskIndex + 2].index ELSE Len(text)

\* taskSection = text.substring(taskStartIndex, nextTaskIndex)
TaskSection(text, tm, taskIndex) ==
  Substring(text, TaskStartIndex(tm, taskIndex),
            NextTaskIndex(text, tm, taskIndex))

\* a span loop without preamble
TaskPreambleNone(section, qm) == <<>>

\* taskSection.substring(0, questionMatches[0].index).trim(), '' without
\* markers
TaskPreamble(section, qm) ==
  IF Len(qm) > 0 THEN Trim(Substring(section, 0, qm[1].index)) ELSE <<>>

\* a span that ignores the markers behind it
EndIndexAtSectionEnd(section, qm, qIndex) == Len(section)

\* endIndex of marker qIndex (0-based)
EndIndex(section, qm, qIndex) ==
  IF qIndex + 1 < Len(qm) THEN qm[qIndex + 2].index ELSE Len(section)

\* questionText before cleanup: the trimmed span of marker qIndex (0-based)
RawBody(section, qm, qIndex) ==
  Trim(Substring(section,
                 qm[qIndex + 1].index + Len(qm[qIndex + 1].fullMatch),
                 EndIndex(section, qm, qIndex)))

\* an admission test that is off by one
AdmittedFromTen(cleaned) == Len(cleaned) >= 10

\* if (questionText.length > 10)
Admitted(cleaned) == Len(cleaned) > 10

\* a span loop that detects the marks after the cleanup
SpanRecordMarksAfterCleanup(taskIndex, t, start, current, raw, cleaned, preamble) ==
  [section |-> taskIndex,
   taskOffset |-> t.index,
   marker |-> current,
   offset |-> start + current.index,
   raw |-> raw,
   emitted |-> Admitted(cleaned),
   question |->
     [number |-> current.id,
      taskNumber |-> ParseInt(t.number),
      taskTitle |-> Trim(t.title),
      text |-> cleaned,
      preamble |-> preamble,
      marks |-> DetectMarks(cleaned)]]

\* what the span loop computes for one marker: the object of
\* questions.push, whether it was pushed, and where the marker is in text
SpanRecord(taskIndex, t, start, current, raw, cleaned, preamble) ==
  [section |-> taskIndex,
   taskOffset |-> t.index,
   marker |-> current,
   offset |-> start + current.index,
   raw |-> raw,
   emitted |-> Admitted(cleaned),
   question |->
     [number |-> current.id,
      taskNumber |-> ParseInt(t.number),
      taskTitle |-> Trim(t.title),
      text |-> cleaned,
      preamble |-> preamble,
      marks |-> DetectMarks(raw)]]

\* the body of the span loop for a marker whose trimmed span is raw
SpanOfRaw(taskIndex, t, start, current, raw, preamble) ==
  SpanRecord(taskIndex, t, start, current, raw, Cleanup(raw), preamble)

\* the span loop over questionMatches qm of a section
SpansOfMarkers(taskIndex, t, start, section, qm) ==
  [k \in 1..Len(qm) |->
     SpanOfRaw(taskIndex, t, start, qm[k], RawBody(section, qm, k - 1),
               TaskPreamble(section, qm))]

\* the question of every span of sp
QuestionsOf(sp) == [k \in 1..Len(sp) |-> sp[k].question]

\* the records questions.push receives for one section
SectionQuestions(sp) == QuestionsOf(SelectSeq(sp, LAMBDA x : x.emitted))

\* questions.unshift(...) over one section
UnshiftAll(questions, new) == new \o questions

\* questions.push(...) over one section
PushAll(questions, new) == questions \o new

\* the Questions one iteration of the task loop pushes
QuestionsOfSection(text, tm, taskIndex) ==
  SectionQuestions(
    SpansOfMarkers(taskIndex, tm[taskIndex + 1],
                   TaskStartIndex(tm, taskIndex),
                   TaskSection(text, tm, taskIndex),
                   PrunedAndSorted(
                     ScanSection(TaskSection(text, tm, taskIndex),
                                 tm[taskIndex + 1].number).list,
                     tm[taskIndex + 1].number)))

\* the task loop from iteration taskIndex on
RECURSIVE ExtractFrom(_, _, _)
ExtractFrom(text, tm, taskIndex) ==
  IF taskIndex >= Len(tm) THEN <<>>
  ELSE PushAll(QuestionsOfSection(text, tm, taskIndex),
               ExtractFrom(text, tm, taskIndex + 1))

\* the function as a whole: the array it returns for the argument text
extractQuestionsFromText(text) == ExtractFrom(text, taskMatches(text), 0)

\* ------------------------------------------------------------------------
\* Input documents
\* ------------------------------------------------------------------------

\* The lines an input document is assembled from.  Every line starts with
\* the newline that ends the line before it.
Pieces ==
  <<
     \* 1: header of task 1
     <<"\n","T","a","s","k"," ","1",":"," ","T">>,
     \* 2: header of task 2
     <<"\n","T","a","s","k"," ","2",":"," ","U">>,
     \* 3: main marker 1 (a), body of 11 characters, no annotation
     <<"\n","1"," ","(","a",")"," ","a","b","c","d","e","f","g","h","i",
       "j","k">>,
     \* 4: bare (a), body of 10 characters and the annotation (5)
     <<"\n","(","a",")"," ","a","b","c","d","e","f","g","h","i","j"," ",
       "(","5",")">>,
     \* 5: bare (c), body of 11 characters and the annotation (0)
     <<"\n","(","c",")"," ","a","b","c","d","e","f","g","h","i","j","k",
       " ","(","0",")">>,
     \* 6: standalone task number and a capitalized word
     <<"\n","1"," ","A","b","c","d","e","f","g","h","i","j","k","l">>,
     \* 7: nested marker 1 (a) (i) with the annotation (5)
     <<"\n","1"," ","(","a",")"," ","(","i",")"," ","a","b","c","d","e",
       "f","g","h","i","j","k"," ","(","5",")">>,
     \* 8: bare roman numeral (ii)
     <<"\n","(","i","i",")"," ","a","b","c","d","e","f","g","h","i","j",
       "k">>
  >>

\* the pieces that are `Task N: title` header lines
HeaderPieces == {1, 2}

\* the largest number of lines of a document
MaxLines == 4

\* the largest number of lines of a document that is parsed repeatedly
MaxLinesAgain == 3

\* the largest number of invocations on one document
MaxCalls == 2

Docs(n) == UNION {[1..k -> 1..Len(Pieces)] : k \in 1..n}

\* Further lines of a task section, numbered on from the lines of Pieces
MarkerPieces ==
  <<
     \* 9: nested marker 1 (b) (i)
     <<"\n","1"," ","(","b",")"," ","(","i",")"," ","a","b","c","d","e",
       "f","g","h","i","j","k">>,
     \* 10: bare (i), a single letter that is also a roman numeral
     <<"\n","(","i",")"," ","a","b","c","d","e","f","g","h","i","j","k">>,
     \* 11: task number and a lowercase word
     <<"\n","1"," ","a","b","c","d","e","f","g","h","i","j","k","l">>,
     \* 12: nested marker 1 (a) (i) with seven blanks after the number
     <<"\n","1"," "," "," "," "," "," "," ","(","a",")"," ","(","i",")",
       " ","a","b","c","d","e","f","g","h","i","j","k">>,
     \* 13: task number and a capitalized word of 10 characters
     <<"\n","1"," ","A","b","c","d","e","f","g","h","i","j">>,
     \* 14: a line that starts with the number 10
     <<"\n","1","0"," ","a","b","c","d","e","f","g","h","i","j","k">>,
     \* 15: task number followed by punctuation
     <<"\n","1","."," ","a","b","c","d","e","f","g","h","i","j","k">>
  >>

\* Lines with notes, annotations, plain text and headers in unusual
\* places, numbered on from the lines of MarkerPieces
CleanupPieces ==
  <<
     \* 16: bare (b) with the annotation (5) followed by a Note: aside
     <<"\n","(","b",")"," ","a","b","c","d","e","f","g","h","i","j","k"," ",
       "(","5",")"," ","N","o","t","e",":"," ","x">>,
     \* 17: bare (b) with an annotation inside the Note: aside
     <<"\n","(","b",")"," ","a","b","c","d","e","f","g","h","i","j","k"," ",
       "N","o","t","e",":"," ","y"," ","(","7",")">>,
     \* 18: a line that begins with Note:
     <<"\n","N","o","t","e",":"," ","x">>,
     \* 19: a line of plain text
     <<"\n","z","z","z","z","z","z","z","z","z","z","z","z">>,
     \* 20: bare (b) with two annotations at the end of the line
     <<"\n","(","b",")"," ","a","b","c","d","e","f","g","h","i","j","k"," ",
       "(","5",")","(","6",")">>,
     \* 21: bare (c) with a cross-reference `Task 2: U` in the line
     <<"\n","(","c",")"," ","a","b","c","d","e","f","g","h","i","j","k","l",
       " ","T","a","s","k"," ","2",":"," ","U">>,
     \* 22: header of task 1 with nothing behind the colon
     <<"\n","T","a","s","k"," ","1",":">>
  >>

\* all lines, by number
Lines == Pieces \o MarkerPieces \o CleanupPieces

\* the lines a single task section is assembled from
SectionPieces == {3, 4, 6, 7, 8, 9, 10, 11, 12, 13, 14, 15}

\* the largest number of lines of a single task section
MaxSectionLines == 3

\* the documents of one task: the header of task 1, then a section
SectionDocs(n) ==
  UNION {{<<1>> \o d : d \in [1..k -> SectionPieces]} : k \in 1..n}

\* the lines that follow the header in a document of CleanupDocs
BodyPieces == {3, 16, 17, 18, 19, 20, 21}

\* the documents of one header of task 1, with or without a title, then
\* up to n lines of BodyPieces
CleanupDocs(n) ==
  UNION {{<<h>> \o d : h \in {1, 22}, d \in [1..k -> BodyPieces]} :
           k \in 1..n}

RECURSIVE Flatten(_)
Flatten(d) ==
  IF Len(d) = 0 THEN <<>>
  ELSE Flatten(SubSeq(d, 1, Len(d) - 1)) \o Lines[d[Len(d)]]

\* ------------------------------------------------------------------------
\* State
\* ------------------------------------------------------------------------

VARIABLES
  doc,        \* the lines the input was assembled from (bookkeeping)
  text,       \* the argument of extractQuestionsFromText
  pc,         \* "idle": not called, "loop": in the task loop, "done": returned
  calls,      \* number of invocations so far
  tasks,      \* taskMatches
  taskIndex,  \* loop variable of the task loop
  questions,  \* the local array questions
  spans,      \* bookkeeping: what the span loop computed for every marker
  scans,      \* bookkeeping: per section, the markers proposed and kept
  ledger,     \* the array the last invocation returned
  previous,   \* the array the invocation before the last returned
  gpc,        \* generateAnswersForQuestions: "idle", "loop" or "resolved"
  gIndex,     \* number of Questions the for-of loop has processed
  taskGroups, \* the object taskGroups
  outcomes,   \* bookkeeping: what the collaborator did for every Question
  hpc,        \* POST /api/generate-answers: the position of the handler
  req,        \* the request: whether it has req.file and the learner fields
  disk,       \* whether the uploaded file exists at req.file.path
  res,        \* the status of the response sent, 0 while none is sent
  sheetNumber,    \* loop variable of the sheet loop
  numberOfSheets  \* settings.numberOfSheets || 1

\* the state of extractQuestionsFromText
parseVars == <<doc, text, pc, calls, tasks, taskIndex, questions, spans,
               scans, ledger, previous>>

\* the state of generateAnswersForQuestions
genVars == <<gpc, gIndex, taskGroups, outcomes>>

\* the state of the handler of POST /api/generate-answers
srvVars == <<hpc, req, disk, res, sheetNumber, numberOfSheets>>

vars == <<doc, text, pc, calls, tasks, taskIndex, questions, spans, scans,
          ledger, previous, gpc, gIndex, taskGroups, outcomes, hpc, req,
          disk, res, sheetNumber, numberOfSheets>>

\* an accumulator that outlives the invocation
StaleQuestions == questions

\* const questions = []  (line 1289)
FreshQuestions == <<>>

InitWith(D) ==
  /\ doc \in D
  /\ text = Flatten(doc)
  /\ pc = "idle"
  /\ calls = 0
  /\ tasks = <<>>
  /\ taskIndex = 0
  /\ questions = <<>>
  /\ spans = <<>>
  /\ scans = <<>>
  /\ ledger = <<>>
  /\ previous = <<>>
  /\ gpc = "idle"
  /\ gIndex = 0
  /\ taskGroups = <<>>
  /\ outcomes = <<>>
  /\ hpc = "idle"
  /\ req = [file |-> FALSE, learner |-> FALSE]
  /\ disk = FALSE
  /\ res = 0
  /\ sheetNumber = 0
  /\ numberOfSheets = 0

Init == InitWith(Docs(MaxLines))

InitAgain == InitWith(Docs(MaxLinesAgain))

InitSection == InitWith(SectionDocs(MaxSectionLines))

InitCleanup == InitWith(CleanupDocs(MaxSectionLines))

\* lines 1285-1292: entry of extractQuestionsFromText
Invoke ==
  /\ questions' = FreshQuestions
  /\ tasks' = taskMatches(text)
  /\ taskIndex' = 0
  /\ spans' = <<>>
  /\ scans' = <<>>
  /\ calls' = calls + 1
  /\ pc' = "loop"
  /\ UNCHANGED <<doc, text, ledger>>
  /\ UNCHANGED genVars
  /\ UNCHANGED srvVars

\* the first invocation on the document
Call ==
  /\ pc = "idle"
  /\ Invoke
  /\ UNCHANGED previous

\* a further invocation on the same document
CallAgain ==
  /\ pc = "done"
  /\ calls < MaxCalls
  /\ previous' = ledger
  /\ Invoke

\* what the three exec loops of a section proposed and kept
ScanRecord(section, acc) ==
  [section |-> section, scanned |-> acc.scanned, kept |-> acc.list]

\* the body of the task loop, lines 1295-1461: the marker scan, the
\* removal of the standalone marker and the sort, the span loop and the
\* pushes
TaskBody ==
  /\ scans' = Append(scans,
                ScanRecord(taskIndex,
                           ScanSection(TaskSection(text, tasks, taskIndex),
                                       tasks[taskIndex + 1].number)))
  /\ spans' = spans \o
                SpansOfMarkers(taskIndex, tasks[taskIndex + 1],
                               TaskStartIndex(tasks, taskIndex),
                               TaskSection(text, tasks, taskIndex),
                               PrunedAndSorted(scans'[Len(scans')].kept,
                                               tasks[taskIndex + 1].number))
  /\ questions' = PushAll(questions,
                    SectionQuestions(SubSeq(spans', Len(spans) + 1,
                                            Len(spans'))))

\* an iteration of the task loop that does not advance taskIndex
ProcessTaskNoAdvance ==
  /\ pc = "loop"
  /\ taskIndex < Len(tasks)
  /\ TaskBody
  /\ UNCHANGED <<doc, text, pc, calls, tasks, taskIndex, ledger, previous>>
  /\ UNCHANGED genVars
  /\ UNCHANGED srvVars

\* one iteration of the task loop, lines 1294-1462
ProcessTask ==
  /\ pc = "loop"
  /\ taskIndex < Len(tasks)
  /\ TaskBody
  /\ taskIndex' = taskIndex + 1
  /\ UNCHANGED <<doc, text, pc, calls, tasks, ledger, previous>>
  /\ UNCHANGED genVars
  /\ UNCHANGED srvVars

\* return questions  (line 1468)
Return ==
  /\ pc = "loop"
  /\ taskIndex = Len(tasks)
  /\ ledger' = questions
  /\ pc' = "done"
  /\ UNCHANGED <<doc, text, calls, tasks, taskIndex, questions, spans,
                 scans, previous>>
  /\ UNCHANGED genVars
  /\ UNCHANGED srvVars

\* ------------------------------------------------------------------------
\* generateAnswersForQuestions on the returned ledger (lines 1474-1591)
\* ------------------------------------------------------------------------

\* the decimal digits of a natural number, as template literals print it
RECURSIVE ToDecimal(_)
ToDecimal(n) ==
  IF n < 10 THEN <<DigitSeq[n + 1]>>
  ELSE ToDecimal(n \div 10) \o <<DigitSeq[(n % 10) + 1]>>

\* `Task ${question.taskNumber}: ${question.taskTitle}`
TaskKey(question) ==
  <<"T", "a", "s", "k", " ">> \o ToDecimal(question.taskNumber)
    \o <<":", " ">> \o question.taskTitle

\* What the collaborator does for one Question: the completion carries a
\* string, the completion carries null as content (formatBulletPoints then
\* throws a TypeError), or the call itself throws
Outcomes == {"content", "null", "throw"}

\* the post-processed answer, a string whose text is left open
GeneratedAnswer == [kind |-> "generated"]

\* fallbackAnswer: question.marks + 3 lines about question.taskTitle
FallbackAnswer(question) ==
  [kind |-> "fallback", bullets |-> question.marks + 3,
   title |-> question.taskTitle]

\* the inner object of taskKey, {} when it is created
GroupOf(groups, taskKey) ==
  IF taskKey \in DOMAIN groups THEN groups[taskKey] ELSE <<>>

\* group with group[number] = answer
WithAnswer(group, number, answer) ==
  [n \in DOMAIN group \cup {number} |->
     IF n = number THEN answer ELSE group[n]]

\* if (!taskGroups[taskKey]) taskGroups[taskKey] = {};
\* taskGroups[taskKey][question.number] = answer
Put(groups, taskKey, number, answer) ==
  [k \in DOMAIN groups \cup {taskKey} |->
     IF k = taskKey
       THEN WithAnswer(GroupOf(groups, taskKey), number, answer)
       ELSE groups[k]]

\* the server hands the ledger to generateAnswersForQuestions
GenerateCall ==
  /\ pc = "done"
  /\ gpc = "idle"
  /\ gpc' = "loop"
  /\ gIndex' = 0
  /\ taskGroups' = <<>>
  /\ outcomes' = <<>>
  /\ UNCHANGED parseVars
  /\ UNCHANGED srvVars

\* the try block alone: an exception leaves the function
AnswerQuestionNoCatch ==
  /\ gpc = "loop"
  /\ gIndex < Len(ledger)
  /\ \E o \in Outcomes :
       /\ outcomes' = Append(outcomes, o)
       /\ IF o = "content"
            THEN /\ taskGroups' = Put(taskGroups, TaskKey(ledger[gIndex + 1]),
                                      ledger[gIndex + 1].number,
                                      GeneratedAnswer)
                 /\ gpc' = gpc
            ELSE /\ taskGroups' = taskGroups
                 /\ gpc' = "rejected"
  /\ gIndex' = gIndex + 1
  /\ UNCHANGED parseVars
  /\ UNCHANGED srvVars

\* one iteration of the for-of loop: the try block (lines 1482-1567) and
\* the catch block (lines 1568-1584)
AnswerQuestion ==
  /\ gpc = "loop"
  /\ gIndex < Len(ledger)
  /\ \E o \in Outcomes :
       /\ outcomes' = Append(outcomes, o)
       /\ taskGroups' = Put(taskGroups, TaskKey(ledger[gIndex + 1]),
                            ledger[gIndex + 1].number,
                            IF o = "content" THEN GeneratedAnswer
                            ELSE FallbackAnswer(ledger[gIndex + 1]))
  /\ gIndex' = gIndex + 1
  /\ UNCHANGED <<gpc>>
  /\ UNCHANGED parseVars
  /\ UNCHANGED srvVars

\* return taskGroups (line 1590)
Resolve ==
  /\ gpc = "loop"
  /\ gIndex = Len(ledger)
  /\ gpc' = "resolved"
  /\ UNCHANGED <<gIndex, taskGroups, outcomes>>
  /\ UNCHANGED parseVars
  /\ UNCHANGED srvVars

Next == Call \/ ProcessTask \/ Return

Spec == Init /\ [][Next]_vars

NextAgain == Call \/ ProcessTask \/ Return \/ CallAgain

SpecAgain == InitAgain /\ [][NextAgain]_vars

\* the function on the documents of one task
SpecSection == InitSection /\ [][Next]_vars

\* the function on the documents of CleanupDocs
SpecCleanup == InitCleanup /\ [][Next]_vars

NextAnswers ==
  Call \/ ProcessTask \/ Return \/ GenerateCall \/ AnswerQuestion \/ Resolve

\* the ledger of a document is handed to generateAnswersForQuestions
SpecAnswers == InitAgain /\ [][NextAnswers]_vars

\* the ledger of every document of Docs(MaxLines), repeated headers
\* included, is handed to generateAnswersForQuestions
SpecAnswersAll == Init /\ [][NextAnswers]_vars

\* ------------------------------------------------------------------------
\* The handler of POST /api/generate-answers (src/server-horizon.js,
\* lines 302-539)
\* ------------------------------------------------------------------------

\* the largest settings.numberOfSheets
MaxSheets == 2

\* upload.single('pdf') has stored the uploaded file, if the request has
\* one, and the handler is entered
Request ==
  /\ hpc = "idle"
  /\ \E file \in BOOLEAN, learner \in BOOLEAN :
       /\ req' = [file |-> file, learner |-> learner]
       /\ disk' = file
  /\ hpc' = "entered"
  /\ UNCHANGED <<res, sheetNumber, numberOfSheets>>
  /\ UNCHANGED <<parseVars, genVars>>

\* lines 307-315: the two early returns with status 400
Validate ==
  /\ hpc = "entered"
  /\ IF ~req.file \/ ~req.learner
       THEN /\ res' = 400
            /\ hpc' = "responded"
       ELSE /\ res' = res
            /\ hpc' = "read"
  /\ UNCHANGED <<req, disk, sheetNumber, numberOfSheets>>
  /\ UNCHANGED <<parseVars, genVars>>

\* lines 319-321: readFileSync and pdfParse give documentText or throw
ReadPdf ==
  /\ hpc = "read"
  /\ \E thrown \in BOOLEAN :
       hpc' = IF thrown THEN "catch" ELSE "extract"
  /\ UNCHANGED <<req, disk, res, sheetNumber, numberOfSheets>>
  /\ UNCHANGED <<parseVars, genVars>>

\* line 328: extractQuestionsFromText(documentText) is called
ExtractCall ==
  /\ hpc = "extract"
  /\ Call

\* lines 329-333: the early return with status 400 on an empty ledger
Questions ==
  /\ hpc = "extract"
  /\ pc = "done"
  /\ IF Len(ledger) = 0
       THEN /\ res' = 400
            /\ hpc' = "responded"
       ELSE /\ res' = res
            /\ hpc' = "settings"
  /\ UNCHANGED <<req, disk, sheetNumber, numberOfSheets>>
  /\ UNCHANGED <<parseVars, genVars>>

\* lines 336-359: the settings are read from the database, or the read
\* throws; the sheet loop starts with sheetNumber = 1
LoadSettings ==
  /\ hpc = "settings"
  /\ \/ /\ hpc' = "catch"
        /\ UNCHANGED <<sheetNumber, numberOfSheets>>
     \/ /\ hpc' = "sheets"
        /\ numberOfSheets' \in 1..MaxSheets
        /\ sheetNumber' = 1
  /\ UNCHANGED <<req, disk, res>>
  /\ UNCHANGED <<parseVars, genVars>>

\* line 364: generateAnswersForQuestions is called for the sheet
SheetCall ==
  /\ hpc = "sheets"
  /\ sheetNumber <= numberOfSheets
  /\ GenerateCall

\* lines 365-461, after the answers are there: the sheet is written and
\* stored ("sheet"), or that throws and the inner catch block stores a
\* fallback sheet ("fallback"), or the inner catch block throws as well
StoreSheet ==
  /\ hpc = "sheets"
  /\ gpc = "resolved"
  /\ \E o \in {"sheet", "fallback", "throw"} :
       IF o = "throw"
         THEN /\ hpc' = "catch"
              /\ sheetNumber' = sheetNumber
         ELSE /\ hpc' = hpc
              /\ sheetNumber' = sheetNumber + 1
  /\ gpc' = "idle"
  /\ UNCHANGED <<gIndex, taskGroups, outcomes>>
  /\ UNCHANGED <<req, disk, res, numberOfSheets>>
  /\ UNCHANGED parseVars

\* line 466, behind the sheet loop: fs.unlinkSync(req.file.path)
Unlink ==
  /\ hpc = "sheets"
  /\ gpc = "idle"
  /\ sheetNumber > numberOfSheets
  /\ disk' = FALSE
  /\ hpc' = "respond"
  /\ UNCHANGED <<req, res, sheetNumber, numberOfSheets>>
  /\ UNCHANGED <<parseVars, genVars>>

\* lines 469-475: res.json of the success response
Respond ==
  /\ hpc = "respond"
  /\ res' = 200
  /\ hpc' = "responded"
  /\ UNCHANGED <<req, disk, sheetNumber, numberOfSheets>>
  /\ UNCHANGED <<parseVars, genVars>>

\* lines 477-483, the outer catch block: the uploaded file is removed if
\* it exists
Catch ==
  /\ hpc = "catch"
  /\ disk' = IF req.file /\ disk THEN FALSE ELSE disk
  /\ hpc' = "fallback"
  /\ UNCHANGED <<req, res, sheetNumber, numberOfSheets>>
  /\ UNCHANGED <<parseVars, genVars>>

\* lines 486-537: the fallback sheet is sent with status 200, or its
\* generation throws and status 500 is sent
Fallback ==
  /\ hpc = "fallback"
  /\ res' \in {200, 500}
  /\ hpc' = "responded"
  /\ UNCHANGED <<req, disk, sheetNumber, numberOfSheets>>
  /\ UNCHANGED <<parseVars, genVars>>

NextServer ==
  \/ Request \/ Validate \/ ReadPdf \/ ExtractCall \/ ProcessTask \/ Return
  \/ Questions \/ LoadSettings \/ SheetCall \/ AnswerQuestion \/ Resolve
  \/ StoreSheet \/ Unlink \/ Respond \/ Catch \/ Fallback

\* one request to POST /api/generate-answers
SpecServer == InitAgain /\ [][NextServer]_vars

TypeOK ==
  /\ pc \in {"idle", "loop", "done"}
  /\ taskIndex \in 0..Len(tasks)
  /\ Len(questions) <= Len(spans)

\* ------------------------------------------------------------------------
\* Properties of the returned ledger
\* ------------------------------------------------------------------------

Returned == pc = "done"

\* the spans whose Question was pushed, in push order
EmittedSpans == SelectSeq(spans, LAMBDA x : x.emitted)

\* the ledger is the pushed Questions of the emitted spans, in order
LedgerFromSpans ==
  /\ Len(ledger) = Len(EmittedSpans)
  /\ \A i \in 1..Len(ledger) : ledger[i] = EmittedSpans[i].question

\* s contains ( digits ), stated on the characters
ContainsParenInteger(s) ==
  \E i \in 1..Len(s) : \E j \in (i + 2)..Len(s) :
    /\ s[i] = "("
    /\ s[j] = ")"
    /\ \A k \in (i + 1)..(j - 1) : s[k] \in Digits

NoHeaderLine == \A i \in 1..Len(doc) : doc[i] \notin HeaderPieces

\* C1: the returned ledger never holds two Questions with the same number
\* and the same taskNumber, also when a `Task N:` header occurs twice
C1_UniqueNumberPerTask ==
  Returned =>
    \A i \in 1..Len(ledger) : \A j \in 1..Len(ledger) :
      i # j => ~(/\ ledger[i].number = ledger[j].number
                 /\ ledger[i].taskNumber = ledger[j].taskNumber)

\* C2: of two Questions of the same task, the one earlier in the ledger has
\* the marker with the smaller or equal offset in the source text, whichever
\* pattern found the markers
C2_OrderPreserved ==
  Returned =>
    /\ LedgerFromSpans
    /\ \A i \in 1..Len(ledger) : \A j \in (i + 1)..Len(ledger) :
         ledger[i].taskNumber = ledger[j].taskNumber
           => EmittedSpans[i].offset <= EmittedSpans[j].offset

\* C2 witness: a returned ledger in which a Question found by the
\* continuation scan precedes a Question of the same task found by the main
\* scan, which ran first
C2_Witness ==
  /\ Returned
  /\ LedgerFromSpans
  /\ \E i \in 1..Len(ledger) : \E j \in (i + 1)..Len(ledger) :
       /\ ledger[i].taskNumber = ledger[j].taskNumber
       /\ EmittedSpans[i].section = EmittedSpans[j].section
       /\ EmittedSpans[i].marker.pattern = "continuation-letter"
       /\ EmittedSpans[j].marker.pattern = "main"

\* a number that is the bare task number: digits only
IsBareNumber(id) == \A p \in 1..Len(id) : id[p] \in Digits

\* a lettered or nested number: it has a parenthesized part
IsLettered(id) == \E p \in 1..Len(id) : id[p] = "("

\* C3: if a Question of a taskNumber has a lettered or nested number, no
\* Question of that taskNumber has the bare task number
C3_FlatOrLettered ==
  Returned =>
    \A i \in 1..Len(ledger) : \A j \in 1..Len(ledger) :
      (/\ ledger[i].taskNumber = ledger[j].taskNumber
       /\ IsLettered(ledger[i].number))
        => ~IsBareNumber(ledger[j].number)

\* C4: every Question of the returned ledger has marks >= 1
C4_PositiveMarks ==
  Returned => \A i \in 1..Len(ledger) : ledger[i].marks >= 1

\* C5: a Question whose raw body holds no parenthesized integer has marks 8,
\* and it is in the ledger whenever its cleaned body passes admission
C5_MarkDefault ==
  Returned =>
    \A k \in 1..Len(spans) :
      ~ContainsParenInteger(spans[k].raw) =>
        /\ spans[k].question.marks = 8
        /\ (Len(spans[k].question.text) > 10 =>
              \E i \in 1..Len(ledger) : ledger[i] = spans[k].question)

\* C5 witness: a returned Question whose raw body has no annotation
C5_Witness ==
  /\ Returned
  /\ LedgerFromSpans
  /\ \E i \in 1..Len(ledger) :
       /\ ~ContainsParenInteger(EmittedSpans[i].raw)
       /\ ledger[i].marks = 8

\* the spans whose cleaned body has 11 or more characters
LongSpans == SelectSeq(spans, LAMBDA x : Len(x.question.text) >= 11)

\* C6: every returned Question has a cleaned text of more than 10
\* characters, and the ledger holds exactly one Question, in order, for
\* every surviving marker whose cleaned body has 11 or more characters
C6_Admission ==
  Returned =>
    /\ \A i \in 1..Len(ledger) : Len(ledger[i].text) > 10
    /\ Len(ledger) = Len(LongSpans)
    /\ \A i \in 1..Len(ledger) : ledger[i] = LongSpans[i].question

\* C6 witness: a Question of exactly 11 characters was returned and a marker
\* whose cleaned body has exactly 10 characters was dropped
C6_Witness ==
  /\ Returned
  /\ \E i \in 1..Len(ledger) : Len(ledger[i].text) = 11
  /\ \E k \in 1..Len(spans) :
       /\ Len(spans[k].question.text) = 10
       /\ ~spans[k].emitted

\* C7: a second invocation on the same text returns a ledger equal to the
\* one the first invocation returned
C7_SameLedgerAgain ==
  (Returned /\ calls >= 2) => ledger = previous

\* C7 witness: the second invocation returned a ledger of two or more
\* Questions
C7_Witness ==
  /\ Returned
  /\ calls = 2
  /\ Len(ledger) >= 2

PatternRank(pattern) ==
  CASE pattern = "main" -> 1
    [] pattern = "nested" -> 2
    [] OTHER -> 3

\* C8: in every task section the proposals come from the main scan, then
\* the nested scan, then the continuation scan, each left to right, and the
\* marker kept for an id is the first proposal with that id; a later
\* proposal of the id adds nothing
C8_FirstScannedWins ==
  \A n \in 1..Len(scans) :
    LET sc == scans[n].scanned
        kept == scans[n].kept
    IN /\ \A a \in 1..Len(sc) : \A b \in (a + 1)..Len(sc) :
            /\ PatternRank(sc[a].pattern) <= PatternRank(sc[b].pattern)
            /\ PatternRank(sc[a].pattern) = PatternRank(sc[b].pattern)
                 => sc[a].index < sc[b].index
       /\ \A a \in 1..Len(kept) : \A b \in 1..Len(kept) :
            a # b => kept[a].id # kept[b].id
       /\ \A b \in 1..Len(sc) :
            \E a \in 1..Len(kept) :
              /\ kept[a].id = sc[b].id
              /\ kept[a] = sc[MinOf({c \in 1..Len(sc) : sc[c].id = sc[b].id})]
       /\ \A a \in 1..Len(kept) : \E b \in 1..Len(sc) : sc[b] = kept[a]
       /\ \A k \in 1..Len(spans) :
            spans[k].section = scans[n].section
              => \E a \in 1..Len(kept) : kept[a] = spans[k].marker

\* C8 witness: an id was proposed twice in one section and the later
\* proposal, which was discarded, has the smaller offset
C8_Witness ==
  \E n \in 1..Len(scans) :
    LET sc == scans[n].scanned
        kept == scans[n].kept
    IN \E a \in 1..Len(sc) : \E b \in (a + 1)..Len(sc) :
         /\ sc[a].id = sc[b].id
         /\ sc[b].index < sc[a].index
         /\ \E k \in 1..Len(kept) : kept[k] = sc[a]
         /\ \A k \in 1..Len(kept) : kept[k] # sc[b]

\* C9: the Questions of the returned ledger are grouped by task section in
\* the order of the headers in the text, and ascend in marker offset within
\* a section
C9_AssemblyOrder ==
  Returned =>
    /\ LedgerFromSpans
    /\ \A i \in 1..Len(ledger) : \A j \in (i + 1)..Len(ledger) :
         /\ EmittedSpans[i].taskOffset <= EmittedSpans[j].taskOffset
         /\ EmittedSpans[i].taskOffset = EmittedSpans[j].taskOffset
              => EmittedSpans[i].offset <= EmittedSpans[j].offset

\* C9 witness: a returned ledger in which a Question of a task with the
\* larger number precedes a Question of a task with the smaller number
C9_Witness ==
  /\ Returned
  /\ \E i \in 1..Len(ledger) : \E j \in (i + 1)..Len(ledger) :
       ledger[i].taskNumber > ledger[j].taskNumber

\* C10: a text without any `Task N:` header yields the empty ledger
C10_NoHeaderEmptyLedger ==
  (Returned /\ NoHeaderLine) => (ledger = <<>> /\ tasks = <<>>)

\* C10 witness: the function returned for a text of several marker lines
\* and no header
C10_Witness ==
  /\ Returned
  /\ NoHeaderLine
  /\ Len(doc) >= 2
  /\ ledger = <<>>

\* the text from header i (1-based) up to the next header or the end
SectionAlone(i) ==
  Substring(text, tasks[i].index,
            IF i < Len(tasks) THEN tasks[i + 1].index ELSE Len(text))

\* the results of parsing every section from the i-th on by itself,
\* concatenated in header order
RECURSIVE AloneFrom(_)
AloneFrom(i) ==
  IF i > Len(tasks) THEN <<>>
  ELSE extractQuestionsFromText(SectionAlone(i)) \o AloneFrom(i + 1)

\* C11: a task section in which no marker is located contributes no
\* Question, and the returned ledger is the concatenation, in header order,
\* of the ledgers obtained by parsing every section on its own
C11_TaskIsolation ==
  Returned =>
    /\ ledger = AloneFrom(1)
    /\ \A n \in 1..Len(scans) :
         scans[n].scanned = <<>> =>
           /\ \A k \in 1..Len(spans) : spans[k].section # scans[n].section
           /\ extractQuestionsFromText(SectionAlone(n)) = <<>>

\* C11 witness: of two or more sections one has no marker and another one
\* has Questions in the returned ledger
C11_Witness ==
  /\ Returned
  /\ Len(tasks) >= 2
  /\ \E n \in 1..Len(scans) : scans[n].scanned = <<>>
  /\ \E k \in 1..Len(spans) : spans[k].emitted
  /\ ledger # <<>>

\* the offset in text at which the section of span k ends
SectionEndOf(k) ==
  IF spans[k].section + 1 < Len(tasks)
    THEN tasks[spans[k].section + 2].index
    ELSE Len(text)

\* the offset in text at which the span of marker k ends: the offset of the
\* next marker of the section, admitted or not, or the end of the section
SpanEndOf(k) ==
  IF k < Len(spans) /\ spans[k + 1].section = spans[k].section
    THEN spans[k + 1].offset
    ELSE SectionEndOf(k)

\* the trimmed text between the matched text of marker k and SpanEndOf(k)
BodyInText(k) ==
  Trim(Substring(text, spans[k].offset + Len(spans[k].marker.fullMatch),
                 SpanEndOf(k)))

\* the first marker of the section of span k
FirstOfSection(k) ==
  MinOf({j \in 1..Len(spans) : spans[j].section = spans[k].section})

\* the trimmed text between the header of span k and the first marker
PreambleInText(k) ==
  Trim(Substring(text, tasks[spans[k].section + 1].end,
                 spans[FirstOfSection(k)].offset))

\* C12: a marker whose cleaned body is shorter than 11 characters has no
\* Question, and every returned Question has the number, text, marks and
\* preamble that follow from the text between its marker and the next
\* marker of the section, whether or not that next marker was admitted
C12_SiblingIsolation ==
  Returned =>
    /\ LedgerFromSpans
    /\ \A k \in 1..Len(spans) :
         /\ Len(spans[k].question.text) < 11 => ~spans[k].emitted
         /\ spans[k].emitted =>
              /\ spans[k].question.number = spans[k].marker.id
              /\ spans[k].question.text = Cleanup(BodyInText(k))
              /\ spans[k].question.marks = DetectMarks(BodyInText(k))
              /\ spans[k].question.preamble = PreambleInText(k)

\* C12 witness: a returned Question whose span is ended by a marker that
\* was dropped for its short body
C12_Witness ==
  /\ Returned
  /\ LedgerFromSpans
  /\ \E k \in 1..Len(spans) - 1 :
       /\ spans[k].emitted
       /\ spans[k + 1].section = spans[k].section
       /\ ~spans[k + 1].emitted
       /\ spans[k + 1].offset
            > spans[k].offset + Len(spans[k].marker.fullMatch)
       /\ \E i \in 1..Len(ledger) : ledger[i] = spans[k].question

\* the pattern loop a proposal came from
LoopOf(pattern) ==
  CASE pattern = "main" -> 1
    [] pattern = "nested" -> 2
    [] OTHER -> 3

\* every header match and every marker match is non-empty, and within one
\* loop a match starts at or behind the end of the match before it
ScanAdvances ==
  /\ \A i \in 1..Len(tasks) :
       /\ tasks[i].end > tasks[i].index
       /\ i < Len(tasks) => tasks[i + 1].index >= tasks[i].end
  /\ \A n \in 1..Len(scans) :
       \A a \in 1..Len(scans[n].scanned) :
         /\ Len(scans[n].scanned[a].fullMatch) > 0
         /\ \A b \in (a + 1)..Len(scans[n].scanned) :
              LoopOf(scans[n].scanned[a].pattern)
                = LoopOf(scans[n].scanned[b].pattern)
                => scans[n].scanned[b].index
                     >= scans[n].scanned[a].index
                          + Len(scans[n].scanned[a].fullMatch)

\* the number of steps the function has left at most
Remaining ==
  CASE pc = "idle" -> Len(text) + 2
    [] pc = "loop" -> Len(tasks) - taskIndex + 1
    [] OTHER -> 0

\* a state before the return is the entry, an iteration of the task loop
\* or the exit of the loop: there is no other place to stop or to fail
InProgress ==
  \/ pc = "idle"
  \/ pc = "loop" /\ taskIndex \in 0..Len(tasks)
  \/ pc = "done" /\ ledger = questions

\* C13: for every input the scanning loops advance on every match, every
\* step of the function brings the return nearer, and no state before
\* the return is a place where the function stops or fails
C13_Terminates ==
  /\ [](ScanAdvances /\ InProgress)
  /\ [][Remaining' < Remaining]_vars

\* C13 witness: the function returned for an input in which a loop matched
\* twice, a proposal was a duplicate and a marker was dropped
C13_Witness ==
  /\ Returned
  /\ \E n \in 1..Len(scans) :
       /\ \E a \in 1..Len(scans[n].scanned) :
            \E b \in (a + 1)..Len(scans[n].scanned) :
              /\ LoopOf(scans[n].scanned[a].pattern)
                   = LoopOf(scans[n].scanned[b].pattern)
              /\ scans[n].scanned[a].id = scans[n].scanned[b].id
  /\ \E k \in 1..Len(spans) : ~spans[k].emitted

\* the lines that start with an explicit nested marker N (L) (i)
NestedStartPieces == {7, 9, 12}

\* the document is the header of task 1, one explicit nested marker line
\* and then bare (ii) lines only
NestedThenRoman ==
  /\ Len(doc) >= 3
  /\ doc[1] = 1
  /\ doc[2] \in NestedStartPieces
  /\ \A i \in 3..Len(doc) : doc[i] = 8

\* the numbers of the returned ledger, in order
LedgerNumbers == [i \in 1..Len(ledger) |-> ledger[i].number]

\* C14: for a section of one explicit nested marker N (L) (i) followed by
\* bare (ii) lines, the returned ledger holds exactly the Questions
\* N(L)(i) and N(L)(ii), and none numbered N(L) or N
C14_NestedThenRoman ==
  (Returned /\ NestedThenRoman) =>
    \E a \in 1..Len(scans[1].scanned) :
      /\ scans[1].scanned[a].pattern = "nested"
      /\ LedgerNumbers =
           << NestedId(tasks[1].number, scans[1].scanned[a].parentLetter,
                       <<"i">>),
              NestedId(tasks[1].number, scans[1].scanned[a].parentLetter,
                       <<"i", "i">>) >>

\* section n (1-based) is flat: every marker proposed in it is the bare
\* task number
FlatSection(n) ==
  \A a \in 1..Len(scans[n].scanned) :
    scans[n].scanned[a].id = tasks[n].number

\* the spans of section n (1-based)
SpansOfTask(n) == {k \in 1..Len(spans) : spans[k].section = scans[n].section}

\* C15: a section without lettered, nested or continuation marker has at
\* most one marker; its Question has the bare task number as number and
\* is returned exactly if the cleaned text behind the first line that
\* starts with the task number, up to the end of the section, has 11 or
\* more characters
C15_FlatTask ==
  Returned =>
    \A n \in 1..Len(scans) :
      FlatSection(n) =>
        /\ Cardinality(SpansOfTask(n)) <= 1
        /\ scans[n].scanned = <<>> => SpansOfTask(n) = {}
        /\ \A k \in SpansOfTask(n) :
             /\ spans[k].marker = scans[n].scanned[1]
             /\ spans[k].question.number = tasks[n].number
             /\ spans[k].question.text =
                  Cleanup(Trim(Substring(text,
                    spans[k].offset + Len(spans[k].marker.fullMatch),
                    SectionEndOf(k))))
             /\ spans[k].emitted <=> Len(spans[k].question.text) >= 11
             /\ spans[k].emitted <=>
                  \E i \in 1..Len(ledger) : ledger[i] = spans[k].question

\* C15 witness: two lines of a flat section start with the task number and
\* the ledger holds the one Question of the section
C15_Witness ==
  /\ Returned
  /\ Len(scans) = 1
  /\ FlatSection(1)
  /\ Len(scans[1].scanned) >= 2
  /\ Len(ledger) = 1
  /\ ledger[1].number = tasks[1].number

\* the result holds a string for question
HoldsString(question) ==
  /\ TaskKey(question) \in DOMAIN taskGroups
  /\ question.number \in DOMAIN taskGroups[TaskKey(question)]
  /\ taskGroups[TaskKey(question)][question.number].kind
       \in {"generated", "fallback"}

\* C16: every Question processed so far has a string at
\* [`Task <taskNumber>: <taskTitle>`][number]; the Question processed last
\* has the fallback answer if the collaborator or the post-processing
\* threw and the generated answer otherwise; the loop goes on after a
\* throw, and the function resolves only after the last Question
C16_AnswerLookup ==
  /\ gpc \in {"idle", "loop", "resolved"}
  /\ gIndex = Len(outcomes)
  /\ gIndex <= Len(ledger)
  /\ gpc = "resolved" => gIndex = Len(ledger)
  /\ \A i \in 1..gIndex : HoldsString(ledger[i])
  /\ gIndex > 0 =>
       taskGroups[TaskKey(ledger[gIndex])][ledger[gIndex].number] =
         IF outcomes[gIndex] = "content" THEN GeneratedAnswer
         ELSE FallbackAnswer(ledger[gIndex])

\* C16 witness: the function resolved for a ledger of two or more
\* Questions after the collaborator threw for the first one and answered
\* the last one
C16_Witness ==
  /\ gpc = "resolved"
  /\ Len(ledger) >= 2
  /\ outcomes[1] = "throw"
  /\ outcomes[Len(ledger)] = "content"
  /\ ledger[1].number # ledger[Len(ledger)].number
  /\ taskGroups[TaskKey(ledger[1])][ledger[1].number].kind = "fallback"

\* marker m is a letter-level marker N(L) or a nested marker N(L)(r)
IsLetterOrNested(m, N) ==
  \/ m.isNested /\ m.parentLetter # <<>>
  \/ m.isParentQuestion /\ IsPlainLetterId(m.id, N)

\* the letter L of such a marker
LetterOfMarker(m, N) ==
  IF m.isNested THEN m.parentLetter ELSE <<m.id[Len(N) + 2]>>

\* the markers of section n that lie before offset x in the section text
\* and carry a letter
LetteredBefore(n, x) ==
  {a \in 1..Len(scans[n].kept) :
     /\ scans[n].kept[a].index < x
     /\ scans[n].kept[a].pattern # "continuation-roman"
     /\ IsLetterOrNested(scans[n].kept[a], tasks[n].number)}

\* C17: a bare (romanNumeral) at a line start is attached to the letter of
\* the nearest letter-level or nested marker that precedes it in the text
\* of the section
C17_RomanNearestPreceding ==
  \A n \in 1..Len(scans) :
    \A c \in 1..Len(scans[n].kept) :
      scans[n].kept[c].pattern = "continuation-roman" =>
        \A a \in LetteredBefore(n, scans[n].kept[c].index) :
          (\A b \in LetteredBefore(n, scans[n].kept[c].index) :
             scans[n].kept[b].index <= scans[n].kept[a].index)
            => scans[n].kept[c].parentLetter
                 = LetterOfMarker(scans[n].kept[a], tasks[n].number)

\* the matches of continuationPattern in section n (1-based)
ContinuationMatchesOf(n) ==
  MatchesFrom(ContinuationTable(TaskSection(text, tasks, n - 1)), 0)

\* C18: every bare (letter) at a line start, for a single letter a-z, is
\* proposed as the marker N(letter), also for the letters i, v and x
C18_LetterContinuation ==
  \A n \in 1..Len(scans) :
    \A j \in 1..Len(ContinuationMatchesOf(n)) :
      (/\ Len(ContinuationMatchesOf(n)[j].g1) = 1
       /\ ContinuationMatchesOf(n)[j].g1[1] \in LowerLetters)
        => \E a \in 1..Len(scans[n].scanned) :
             /\ scans[n].scanned[a].index = ContinuationMatchesOf(n)[j].index
             /\ scans[n].scanned[a].pattern = "continuation-letter"
             /\ scans[n].scanned[a].id =
                  LetterId(tasks[n].number, ContinuationMatchesOf(n)[j].g1)

\* the offset in text just behind the matched text of marker k
MarkerEndOf(k) == spans[k].offset + Len(spans[k].marker.fullMatch)

\* C19: the body of every marker is the text from the end of its matched
\* text up to, and excluding, the offset of the next marker of the section
\* or the end of the section: it is empty when the next marker starts
\* before that end, and never holds a character of the marker itself
C19_SpanBetweenMarkers ==
  \A k \in 1..Len(spans) :
    spans[k].raw = Trim(SubSeq(text, MarkerEndOf(k) + 1, SpanEndOf(k)))

\* in s, the line that starts at the newline at offset p continues, after
\* optional blanks, with the number N, one or more blanks and an
\* uppercase letter
NumberThenCapital(s, N, p) ==
  /\ LitAt(s, SkipWs(s, p + 1), N)
  /\ SkipWs(s, SkipWs(s, p + 1) + Len(N)) > SkipWs(s, p + 1) + Len(N)
  /\ At(s, SkipWs(s, SkipWs(s, p + 1) + Len(N))) \in UpperLetters

\* C20: a marker whose id is the bare task number is proposed only where
\* a line starts with the task number followed by whitespace and a
\* capitalized word
C20_StandaloneNeedsCapital ==
  \A n \in 1..Len(scans) :
    \A a \in 1..Len(scans[n].scanned) :
      scans[n].scanned[a].id = tasks[n].number =>
        NumberThenCapital(TaskSection(text, tasks, n - 1), tasks[n].number,
                          scans[n].scanned[a].index)

\* the text of span k between the end of its marker and the next marker
\* of the section or the end of the section, trimmed
OwnSpan(k) == Trim(SubSeq(text, MarkerEndOf(k) + 1, SpanEndOf(k)))

\* s holds a parenthesized integer that starts at position i and ends at j
ParenIntegerAt(s, i, j) ==
  /\ s[i] = "("
  /\ s[j] = ")"
  /\ j > i + 1
  /\ \A x \in (i + 1)..(j - 1) : s[x] \in Digits

\* the positions at which a parenthesized integer of s starts
ParenIntegerStarts(s) ==
  {i \in 1..Len(s) : \E j \in (i + 2)..Len(s) : ParenIntegerAt(s, i, j)}

\* the value of the parenthesized integer of s that starts at i
ParenIntegerValue(s, i) ==
  ParseInt(SubSeq(s, i + 1,
                  (CHOOSE j \in (i + 2)..Len(s) : ParenIntegerAt(s, i, j))
                    - 1))

\* C21: the marks of every Question are the value of the first
\* parenthesized integer of its own uncleaned span, wherever in the span
\* it stands, and 8 if the span has none
C21_MarksFromOwnSpan ==
  \A k \in 1..Len(spans) :
    spans[k].question.marks =
      IF ParenIntegerStarts(OwnSpan(k)) = {} THEN 8
      ELSE ParenIntegerValue(OwnSpan(k), MinOf(ParenIntegerStarts(OwnSpan(k))))

\* C21 witness: a returned Question has the marks 7 of an annotation that
\* stands in a Note: aside, which the cleanup removed from its text
C21_Witness ==
  /\ Returned
  /\ \E i \in 1..Len(ledger) :
       /\ ledger[i].marks = 7
       /\ ~ContainsParenInteger(ledger[i].text)

\* position j of s is the last of a line
EndsLine(s, j) == j = Len(s) \/ s[j + 1] \in LineTerminators

\* a line of s ends with a parenthesized integer
LineEndsWithParenInteger(s) ==
  \E i \in 1..Len(s) : \E j \in (i + 2)..Len(s) :
    ParenIntegerAt(s, i, j) /\ EndsLine(s, j)

\* C22: no line of the text of a returned Question ends with a
\* parenthesized integer
C22_AnnotationStripped ==
  Returned =>
    \A i \in 1..Len(ledger) : ~LineEndsWithParenInteger(ledger[i].text)

\* s holds `Note:`, in any case, somewhere
HoldsNote(s) == \E p \in 0..Len(s) - 1 : LitAtI(s, p, NoteLit)

\* a line of s begins with `Note:`
LineBeginsWithNote(s) ==
  \E p \in 0..Len(s) - 1 : AtLineStart(s, p) /\ LitAtI(s, p, NoteLit)

\* C23: the cleanup removes a note only where a line begins with `Note:`;
\* a `Note:` in the middle of a line of the body stays in the text
C23_OnlyNoteLines ==
  \A k \in 1..Len(spans) :
    (HoldsNote(spans[k].raw) /\ ~LineBeginsWithNote(spans[k].raw))
      => HoldsNote(spans[k].question.text)

\* the lowest offset in text of a marker of the section of span k
LowestOffsetOf(k) ==
  MinOf({spans[j].offset :
           j \in {x \in 1..Len(spans) : spans[x].section = spans[k].section}})

\* C24: every Question of a section has the same preamble, the trimmed
\* text between the header and the surviving marker of the lowest offset,
\* whether or not that marker's Question is returned; no span of a
\* Question starts in the preamble, and a section without marker has
\* neither Question nor preamble
C24_SharedPreamble ==
  Returned =>
    /\ LedgerFromSpans
    /\ \A k \in 1..Len(spans) :
         /\ spans[k].question.preamble =
              Trim(SubSeq(text, tasks[spans[k].section + 1].end + 1,
                          LowestOffsetOf(k)))
         /\ MarkerEndOf(k) >= LowestOffsetOf(k)
         /\ SpanEndOf(k) >= LowestOffsetOf(k)
    /\ \A n \in 1..Len(scans) :
         PrunedAndSorted(scans[n].kept, tasks[n].number) = <<>>
           => SpansOfTask(n) = {}

\* C24 witness: a returned Question has a preamble that is not empty and
\* ends at a marker whose own Question was dropped
C24_Witness ==
  /\ Returned
  /\ \E k \in 1..Len(spans) :
       /\ spans[k].emitted
       /\ spans[k].question.preamble # <<>>
       /\ \E j \in 1..Len(spans) :
            /\ spans[j].section = spans[k].section
            /\ spans[j].offset = LowestOffsetOf(k)
            /\ ~spans[j].emitted
       /\ \E i \in 1..Len(ledger) : ledger[i] = spans[k].question

\* C25: a task section is started only by a `Task N:` that stands at the
\* start of a line
C25_HeaderAtLineStart ==
  \A i \in 1..Len(tasks) : AtLineStart(text, tasks[i].index)

\* C26: the title of a task is taken from the header line: the header match,
\* from the word `Task` to the end of the title, holds no line break, so the
\* section body begins right behind the header line
C26_TitleOnHeaderLine ==
  \A i \in 1..Len(tasks) :
    \A j \in tasks[i].index..(tasks[i].end - 1) : At(text, j) # NL

\* the offset behind the task number N that leads the marker at offset p
\* of the section text s
NumberEnd(s, N, p) == SkipWs(s, p + 1) + Len(N)

\* C27: a marker of the main or the nested pattern comes from a line whose
\* leading number is exactly the task number: in the section text the
\* number of the marker is not followed by a further digit
C27_NumberAnchored ==
  \A k \in 1..Len(spans) :
    spans[k].marker.pattern \in {"main", "nested"} =>
      At(TaskSection(text, tasks, spans[k].section),
         NumberEnd(TaskSection(text, tasks, spans[k].section),
                   tasks[spans[k].section + 1].number,
                   spans[k].marker.index)) \notin Digits

\* a, from its position i on, is b from its position j on with characters
\* deleted
RECURSIVE DeletedFrom(_, _, _, _)
DeletedFrom(a, i, b, j) ==
  IF i > Len(a) THEN TRUE
  ELSE IF j > Len(b) THEN FALSE
  ELSE IF a[i] = b[j] THEN DeletedFrom(a, i + 1, b, j + 1)
  ELSE DeletedFrom(a, i, b, j + 1)

\* the text of the section of span k, from the end of its header match to
\* the next header or the end of the text
OwnSection(k) ==
  SubSeq(text, tasks[spans[k].section + 1].end + 1, SectionEndOf(k))

\* C28: the text and the preamble of every returned Question are made of
\* characters of its own task section, in their order: cleanup deletes
\* and never inserts or reorders
C28_SectionContainment ==
  Returned =>
    /\ LedgerFromSpans
    /\ \A k \in 1..Len(spans) :
         spans[k].emitted =>
           /\ DeletedFrom(spans[k].question.text, 1, OwnSection(k), 1)
           /\ DeletedFrom(spans[k].question.preamble, 1, OwnSection(k), 1)

\* C28 witness: a returned ledger with Questions of two sections, one of
\* them with a text that cleanup shortened
C28_Witness ==
  /\ Returned
  /\ Len(ledger) > 1
  /\ \E k, j \in 1..Len(spans) :
       /\ spans[k].emitted
       /\ spans[j].emitted
       /\ spans[k].section # spans[j].section
       /\ spans[k].question.text # BodyInText(k)
       /\ Len(OwnSection(j)) < Len(text)

\* the (task key, question number) pairs that hold an answer
AnswerEntries ==
  UNION {{<<key, number>> : number \in DOMAIN taskGroups[key]} :
           key \in DOMAIN taskGroups}

\* C29: the structure returned by generateAnswersForQuestions holds as
\* many (task key, question number) answers as the ledger has Questions
C29_NoAnswerLost ==
  gpc = "resolved" => Cardinality(AnswerEntries) = Len(ledger)

\* C30: when the handler has responded to a request that came with an
\* uploaded file, whatever the outcome, the file is deleted
C30_UploadDeleted ==
  (hpc = "responded" /\ req.file) => ~disk

====
